---- MODULE Spec2Model ----
(***************************************************************************)
(* Model of PlottingSpectra (src/plot_spectra.py): the binning, breakdown, *)
(* correlation and KS helpers of the spectrum plotting class.              *)
(*                                                                         *)
(* Numbers.  A float is modelled exactly as a rational <<n, d>> with d > 0 *)
(* (d = 0 stands for the result of a division by zero).  Floating-point    *)
(* rounding is not modelled.  A log-spaced table 10**arange(log10 a,       *)
(* log10 b, dv) is computed for bin widths of whole decades, for which its *)
(* entries a * 10^(j*dv) are rationals.                                    *)
(***************************************************************************)
EXTENDS Integers, Sequences, FiniteSets, TLC

VARIABLES
    halo,       \* find_nearest_halo()[0]: halo index of each sightline, -1 = none
    sub_vvir,   \* virial_vel(h): virial velocity of halo h
    vels,       \* vel_width(elem, ion) / vel_peak(elem, ion): one value per sightline
    met,        \* get_metallicity(): one value per sightline
    filt,       \* get_filt(elem, ion): the selected sightline indices
    den,        \* the array get_density(elem, ion) returns: [sightline][pixel]
    temp,       \* the array get_temp(elem, ion) returns: [sightline][pixel]
    np_old,     \* whether the installed numpy reads edges[-1] in np.histogram
    op,         \* the operation that ran last
    args,       \* its arguments
    loc,        \* its local arrays
    plotted,    \* the curves handed to matplotlib, in order
    err         \* the exception it raised, "none" if it returned

vars == <<halo, sub_vvir, vels, met, filt, den, temp, np_old, op, args, loc, plotted, err>>

(***************************************************************************)
(* Bounds of the model.                                                    *)
(***************************************************************************)
NumLos == 3
MaxHalo == 1
NumPix == 2
ExtLen == 2

Los == 1..NumLos
HaloIdx == -1..MaxHalo
VelVals == {0, 1, 12, 20, 200}
VVirVals == {60, 100}
MetVals == {0, 10}
LogVelVals == {0, 100}
PosMetVals == {1, 10}
PosVelVals == {1, 100}
DenVals == {5, 20}
TempVals == {1, 20}
LogDvVals == {1, 2}
LinDvVals == {1, 10}
DvVals(log) == IF log THEN LogDvVals ELSE LinDvVals

(***************************************************************************)
(* Rationals.                                                              *)
(***************************************************************************)
QLt(a, b) == a[1] * b[2] < b[1] * a[2]
QLe(a, b) == a[1] * b[2] <= b[1] * a[2]
QOf(n) == <<n, 1>>

RECURSIVE GCD(_, _)
GCD(a, b) == IF b = 0 THEN a ELSE GCD(b, a % b)

QReduce(a) == LET g == GCD(a[1], a[2]) IN IF g = 0 THEN a ELSE <<a[1] \div g, a[2] \div g>>
QMul(a, b) == LET x == QReduce(a)
                  y == QReduce(b)
              IN  QReduce(<<x[1] * y[1], x[2] * y[2]>>)

QAdd(a, b) == QReduce(<<a[1] * b[2] + b[1] * a[2], a[2] * b[2]>>)
QSame(a, b) == QReduce(a) = QReduce(b)

RECURSIVE Pow10(_)
Pow10(k) == IF k <= 0 THEN 1 ELSE 10 * Pow10(k - 1)

(***************************************************************************)
(* numpy helpers.                                                          *)
(***************************************************************************)
\* np.min(a), np.max(a) of a non-empty sequence of rationals
NpMin(a) == a[CHOOSE i \in 1..Len(a) : \A j \in 1..Len(a) : QLe(a[i], a[j])]
NpMax(a) == a[CHOOSE i \in 1..Len(a) : \A j \in 1..Len(a) : QLe(a[j], a[i])]

\* the elements of a set of integers in increasing order
RECURSIVE SortedSeq(_)
SortedSeq(S) ==
    IF S = {} THEN <<>>
    ELSE LET m == CHOOSE x \in S : \A y \in S : x <= y
         IN  <<m>> \o SortedSeq(S \ {m})

\* np.where(mask)[0]: the positions where a boolean sequence is true
Where(mask) == SortedSeq({i \in 1..Len(mask) : mask[i]})

\* a[idx] for an index array idx: a new array
Take(a, idx) == [j \in 1..Len(idx) |-> a[idx[j]]]

\* np.arange(lo, hi, dv): the ceil((hi - lo)/dv) values lo, lo+dv, ... below hi
Arange(lo, hi, dv) ==
    LET span == hi[1] * lo[2] - lo[1] * hi[2]
        step == dv * lo[2] * hi[2]
        n == IF span > 0 THEN (span + step - 1) \div step ELSE 0
    IN  [j \in 1..n |-> <<lo[1] + (j - 1) * dv * lo[2], lo[2]>>]

\* 10**np.arange(np.log10(lo), np.log10(hi), dv) for lo > 0:
\* lo, lo*10^dv, ... while log10(lo) + j*dv < log10(hi)
RECURSIVE LogArange(_, _, _)
LogArange(lo, hi, dv) ==
    IF QLt(lo, hi) THEN <<lo>> \o LogArange(<<lo[1] * Pow10(dv), lo[2]>>, hi, dv)
    ELSE <<>>

\* whether np.histogram(., edges) counts x in bin i: bins are half-open,
\* the last one is closed
InBin(x, edges, i) ==
    /\ QLe(edges[i], x)
    /\ IF i = Len(edges) - 1 THEN QLe(x, edges[i + 1]) ELSE QLt(x, edges[i + 1])

\* np.histogram(a, edges)[0]
Histogram(a, edges) ==
    [i \in 1..(IF Len(edges) = 0 THEN 0 ELSE Len(edges) - 1) |->
        Cardinality({k \in 1..Len(a) : InBin(a[k], edges, i)})]

\* The exception of np.histogram(a, edges) for a non-empty a: with an empty edge
\* table the numpy releases that read edges[-1] raise IndexError (old = TRUE),
\* the later ones return an empty count array.
HistErr(a, edges, old) ==
    IF Len(a) > 0 /\ Len(edges) = 0 /\ old THEN "IndexError" ELSE "none"

\* [(t[i]+t[i+1])/2. for i in range(0, np.size(t)-1)]
BinCentersLeft(t) ==
    [i \in 1..(IF Len(t) = 0 THEN 0 ELSE Len(t) - 1) |-> t[i]]
BinCenters(t) ==
    [i \in 1..(IF Len(t) = 0 THEN 0 ELSE Len(t) - 1) |->
        QReduce(<<t[i][1] * t[i + 1][2] + t[i + 1][1] * t[i][2], 2 * t[i][2] * t[i + 1][2]>>)]

\* hist[np.where(hist == 0)] = 1
ZeroSubNone(h) == h
ZeroSub(h) == [i \in 1..Len(h) |-> IF h[i] = 0 THEN 1 ELSE h[i]]

\* h2/(1.*h1), element-wise
Ratio(h2, h1) == [i \in 1..Len(h1) |-> <<h2[i], h1[i]>>]

\* the bin table of an array: [err, v_table]
MakeBins(arr, dv, log) ==
    IF Len(arr) = 0
    THEN [err |-> "ValueError", v_table |-> <<>>]      \* np.min of an empty array
    ELSE IF log /\ NpMin(arr)[1] <= 0
    THEN [err |-> "ValueError", v_table |-> <<>>]      \* np.arange from -inf
    ELSE [err |-> "none",
          v_table |-> IF log THEN LogArange(NpMin(arr), NpMax(arr), dv)
                             ELSE Arange(NpMin(arr), NpMax(arr), dv)]

NoLoc == [arr |-> <<>>, kept |-> {}, v_table |-> <<>>, vbin |-> <<>>, vhist |-> <<>>]

(***************************************************************************)
(* _plot_breakdown                                                         *)
(***************************************************************************)
colors == <<"red", "purple", "cyan">>
lss == <<"--", ":", "-">>

\* the test of line 262, 299, 380: halo[filt] > 0
HasHalo(h) == h > 0

\* the test of line 280: (virial > low[ii])*(virial < high[ii])
InRange(v, lo, hi) == lo < v /\ v < hi

\* the loop of lines 279-282, from range ii on: [plotted, err]
RECURSIVE BreakdownLoop(_, _, _, _, _, _, _, _, _, _)
BreakdownLoop(ii, low, high, labels, virial, src, sub, v_table, vbin, vhist) ==
    IF ii > Len(low) THEN [plotted |-> <<>>, err |-> "none"]
    ELSE IF ii > Len(high) \/ ii > Len(colors) \/ ii > Len(lss) \/ ii > Len(labels)
    THEN [plotted |-> <<>>, err |-> "IndexError"]
    ELSE LET vind == Where([j \in 1..Len(virial) |-> InRange(virial[j], low[ii], high[ii])])
             vhist2 == Histogram(Take(sub, vind), v_table)
             curve == [x |-> vbin, y |-> Ratio(vhist2, vhist), label |-> labels[ii],
                       members |-> {src[vind[j]] : j \in 1..Len(vind)}]
             rest == BreakdownLoop(ii + 1, low, high, labels, virial, src, sub,
                                   v_table, vbin, vhist)
         IN  [plotted |-> <<curve>> \o rest.plotted, err |-> rest.err]

\* _plot_breakdown(array, filt, low, high, labels, dv, log): [loc, plotted, err]
PlotBreakdown(array, fl, low, high, labels, dv, log, old) ==
    LET fseq == SortedSeq(fl)
        hf == Take(halo, fseq)
        ind == Where([k \in 1..Len(hf) |-> HasHalo(hf[k])])
        virial == [j \in 1..Len(ind) |-> sub_vvir[hf[ind[j]]]]
        arr == [k \in 1..Len(fseq) |-> QOf(array[fseq[k]])]
        bins == MakeBins(arr, dv, log)
        vbin == BinCenters(bins.v_table)
        vhist == ZeroSub(Histogram(arr, bins.v_table))
        kept == {fseq[ind[j]] : j \in 1..Len(ind)}
        run == BreakdownLoop(1, low, high, labels, virial, Take(fseq, ind),
                             Take(arr, ind), bins.v_table, vbin, vhist)
    IN  IF bins.err # "none"
        THEN [loc |-> [NoLoc EXCEPT !.arr = arr, !.kept = kept],
              plotted |-> <<>>, err |-> bins.err]
        ELSE IF HistErr(arr, bins.v_table, old) # "none"
        THEN [loc |-> [NoLoc EXCEPT !.arr = arr, !.kept = kept, !.vbin = vbin],
              plotted |-> <<>>, err |-> HistErr(arr, bins.v_table, old)]
        ELSE [loc |-> [arr |-> arr, kept |-> kept, v_table |-> bins.v_table,
                       vbin |-> vbin, vhist |-> vhist],
              plotted |-> run.plotted, err |-> run.err]

\* One call of a method: the class is used from a single thread, so a call
\* starts when no other is running and runs to its return or its exception.
Idle == op = "none"

Call(name, a, r) ==
    /\ Idle
    /\ op' = name
    /\ args' = a
    /\ loc' = r.loc
    /\ plotted' = r.plotted
    /\ err' = r.err

Data == <<halo, sub_vvir, vels, met, filt, den, temp, np_old>>

\* The caller takes the result, the locals die and the figure is cleared.
Return ==
    /\ ~Idle
    /\ op' = "none"
    /\ args' = <<>>
    /\ loc' = NoLoc
    /\ plotted' = <<>>
    /\ err' = "none"
    /\ UNCHANGED Data

\* the range tables a caller may pass to _plot_breakdown: contiguous, with a
\* gap, overlapping, in another order, and with a fourth range
RangeSpecs ==
    { [low |-> <<0, 60, 120>>, high |-> <<60, 120, 900>>, labels |-> <<"a", "b", "c">>],
      [low |-> <<0, 50>>, high |-> <<70, 900>>, labels |-> <<"a", "b">>],
      [low |-> <<0, 50>>, high |-> <<120, 900>>, labels |-> <<"a", "b">>],
      [low |-> <<60, 120, 0>>, high |-> <<120, 900, 60>>, labels |-> <<"b", "c", "a">>],
      [low |-> <<0, 60, 80, 120>>, high |-> <<60, 80, 120, 900>>,
       labels |-> <<"a", "b", "c", "d">>] }

plot_breakdown ==
    \E rs \in RangeSpecs, log \in BOOLEAN : \E dv \in DvVals(log) :
        /\ Call("_plot_breakdown",
                [low |-> rs.low, high |-> rs.high, dv |-> dv, log |-> log],
                PlotBreakdown(vels, filt, rs.low, rs.high, rs.labels, dv, log, np_old))
        /\ UNCHANGED Data

plot_vel_width_breakdown ==
    \E dv \in LogDvVals :
        /\ Call("plot_vel_width_breakdown",
                [low |-> <<0, 60, 120>>, high |-> <<60, 120, 900>>, dv |-> dv, log |-> TRUE],
                PlotBreakdown(vels, filt, <<0, 60, 120>>, <<60, 120, 900>>,
                              <<"< 60", "60-120", "> 120">>, dv, TRUE, np_old))
        /\ UNCHANGED Data

plot_f_peak_breakdown ==
    \E dv \in LinDvVals :
        /\ Call("plot_f_peak_breakdown",
                [low |-> <<0, 50>>, high |-> <<50, 900>>, dv |-> dv, log |-> FALSE],
                PlotBreakdown(vels, filt, <<0, 50>>, <<50, 900>>,
                              <<"< 50", "> 50">>, dv, FALSE, np_old))
        /\ UNCHANGED Data

(***************************************************************************)
(* plot_sep_frac, plot_mult_halo_frac, plot_virial_vel_vs_vel_width        *)
(***************************************************************************)
\* the table of line 224: 10**np.arange(1, 3, dv)
SepTableLo == 1
SepTableHi == 3

\* plot_sep_frac; sep is get_separated(...), a selection of vels[ind]
PlotSepFrac(sep, dv) ==
    LET fseq == SortedSeq(filt)
        arr == [k \in 1..Len(fseq) |-> QOf(vels[fseq[k]])]
        v_table == LogArange(QOf(Pow10(SepTableLo)), QOf(Pow10(SepTableHi)), dv)
        vbin == BinCenters(v_table)
        sidx == SortedSeq(sep)
        hist1 == ZeroSub(Histogram(arr, v_table))
        hist2 == Histogram(Take(arr, sidx), v_table)
    IN  [loc |-> [arr |-> arr, kept |-> filt, v_table |-> v_table, vbin |-> vbin,
                  vhist |-> hist1],
         plotted |-> << [x |-> vbin, y |-> Ratio(hist2, hist1), label |-> "",
                         members |-> {fseq[sidx[j]] : j \in 1..Len(sidx)}] >>,
         err |-> "none"]

plot_sep_frac ==
    \E dv \in LogDvVals, sep \in SUBSET (1..Cardinality(filt)) :
        /\ Call("plot_sep_frac", [dv |-> dv, log |-> TRUE, sep |-> sep], PlotSepFrac(sep, dv))
        /\ UNCHANGED Data

\* plot_mult_halo_frac; multi[s] is len(allh[s]) > 1 for sightline s
PlotMultHaloFrac(multi, dv, old) ==
    LET fseq == SortedSeq(filt)
        hf == Take(halo, fseq)
        ind == Where([k \in 1..Len(hf) |-> HasHalo(hf[k])])
        vwvir == [j \in 1..Len(ind) |-> QOf(vels[fseq[ind[j]]])]
        bins == MakeBins(vwvir, dv, TRUE)
        vbin == BinCenters(bins.v_table)
        hist1 == ZeroSub(Histogram(vwvir, bins.v_table))
        kept == {fseq[ind[j]] : j \in 1..Len(ind)}
        \* allh[ind]: allh is indexed by the positions ind
        indmult == Where([j \in 1..Len(ind) |-> multi[ind[j]]])
        histmult == Histogram(Take(vwvir, indmult), bins.v_table)
        herr == HistErr(vwvir, bins.v_table, old)
    IN  IF bins.err # "none" \/ herr # "none"
        THEN [loc |-> [NoLoc EXCEPT !.arr = vwvir, !.kept = kept],
              plotted |-> <<>>, err |-> IF bins.err # "none" THEN bins.err ELSE herr]
        ELSE [loc |-> [arr |-> vwvir, kept |-> kept, v_table |-> bins.v_table,
                       vbin |-> vbin, vhist |-> hist1],
              plotted |-> << [x |-> vbin, y |-> Ratio(histmult, hist1), label |-> "",
                              members |-> {fseq[ind[indmult[j]]] : j \in 1..Len(indmult)}] >>,
              err |-> "none"]

plot_mult_halo_frac ==
    \E dv \in LogDvVals, multi \in [Los -> BOOLEAN] :
        /\ Call("plot_mult_halo_frac", [dv |-> dv, log |-> TRUE, multi |-> multi],
                PlotMultHaloFrac(multi, dv, np_old))
        /\ UNCHANGED Data

\* the test of line 423: halos[ind] != -1
NotMinusOne(h) == h # -1

\* np.histogram(a, edges, density=True)[0] on edges dm apart (in log10)
Density(a, edges, dm) ==
    LET n == Histogram(a, edges)
        tot == Cardinality({k \in 1..Len(a) : \E i \in 1..Len(n) : InBin(a[k], edges, i)})
    IN  [i \in 1..Len(n) |-> <<n[i], tot * dm>>]

\* plot_virial_vel_vs_vel_width
PlotVirialVelVsVelWidth(dm, old) ==
    LET fseq == SortedSeq(filt)
        hf == Take(halo, fseq)
        f_ind == Where([k \in 1..Len(hf) |-> NotMinusOne(hf[k])])
        \* vel/(virial_vel(...)+0.1)
        vvvir == [j \in 1..Len(f_ind) |->
                    <<10 * vels[fseq[f_ind[j]]], 10 * sub_vvir[hf[f_ind[j]]] + 1>>]
        bins == MakeBins(vvvir, dm, TRUE)
        mbin == BinCenters(bins.v_table)
        kept == {fseq[f_ind[j]] : j \in 1..Len(f_ind)}
        herr == HistErr(vvvir, bins.v_table, old)
    IN  IF bins.err # "none" \/ herr # "none"
        THEN [loc |-> [NoLoc EXCEPT !.arr = vvvir, !.kept = kept],
              plotted |-> <<>>, err |-> IF bins.err # "none" THEN bins.err ELSE herr]
        ELSE [loc |-> [arr |-> vvvir, kept |-> kept, v_table |-> bins.v_table,
                       vbin |-> mbin, vhist |-> Histogram(vvvir, bins.v_table)],
              plotted |-> << [x |-> mbin, y |-> Density(vvvir, bins.v_table, dm),
                              label |-> "", members |-> kept] >>,
              err |-> "none"]

plot_virial_vel_vs_vel_width ==
    \E dm \in LogDvVals :
        /\ Call("plot_virial_vel_vs_vel_width", [dv |-> dm, log |-> TRUE],
                PlotVirialVelVsVelWidth(dm, np_old))
        /\ UNCHANGED Data

(***************************************************************************)
(* Log transforms.  np.log10(q) is kept as the real number it denotes:     *)
(* [log |-> TRUE, q |-> q] is log10(q), [log |-> FALSE, q |-> q] is q.     *)
(* log10(0) is -inf, which compares below every number.                    *)
(***************************************************************************)
Log10(q) == [log |-> TRUE, q |-> q]
Lin(q) == [log |-> FALSE, q |-> q]

\* log10(q) for q <= 0: -inf or nan
NonFinite(r) == r.log /\ r.q[1] <= 0

\* v < 10^w for integers v and w >= 0
RECURSIVE BelowPow10(_, _)
BelowPow10(v, w) ==
    IF v <= 0 THEN TRUE
    ELSE IF w <= 0 THEN FALSE
    ELSE BelowPow10(v \div 10, w - 1)

\* a < b
RLt(a, b) ==
    IF a.log = b.log THEN QLt(a.q, b.q)
    ELSE IF a.log THEN BelowPow10(a.q[1], b.q[1])           \* log10(v) < w
    ELSE b.q[1] > 0 /\ ~BelowPow10(b.q[1] - 1, a.q[1])      \* w < log10(v)

(***************************************************************************)
(* _plot_2d_contour and its callers                                        *)
(***************************************************************************)
DefaultSample == 40
ContourMult == << <<15, 100>>, <<1, 1>>, <<10, 1>> >>

\* (self.NumLos/sample)*np.array([0.15,1,10]); the division is Python 2's:
\* it floors when sample is an int
ContourLevels(sample, isfloat) ==
    LET base == IF isfloat THEN <<NumLos, sample>> ELSE <<NumLos \div sample, 1>>
    IN  [m \in 1..3 |-> QMul(base, ContourMult[m])]

\* _plot_2d_contour(xvals, yvals, nbins, ylog=, xlog=, sample=); a caller that
\* passes no sample gets DefaultSample (args.sample_given is FALSE); raises tells
\* whether the installed np.histogram2d rejects a non-finite range
Plot2dContour(xvals, yvals, ylog, xlog, sample, isfloat, kept, raises) ==
    LET yT == [k \in 1..Len(yvals) |-> IF ylog THEN Log10(yvals[k]) ELSE Lin(yvals[k])]
        xT == [k \in 1..Len(xvals) |-> IF xlog THEN Log10(xvals[k]) ELSE Lin(xvals[k])]
        bad == \E k \in 1..Len(xT) : NonFinite(xT[k]) \/ NonFinite(yT[k])
    IN  [loc |-> [kept |-> kept, xT |-> xT, yT |-> yT, sample |-> sample,
                  levels |-> ContourLevels(sample, isfloat)],
         plotted |-> <<>>,
         err |-> IF bad /\ raises THEN "ValueError" ELSE "none"]

\* plot_vel_vs_mass -> _plot_xx_vs_mass(vel, "vel")
PlotXXVsMass(xx, raises) ==
    LET fseq == SortedSeq(filt)
        hf == Take(halo, fseq)
        ind == Where([k \in 1..Len(hf) |-> HasHalo(hf[k])])
        kept == {fseq[ind[j]] : j \in 1..Len(ind)}
        \* virial_vel(halo)+0.1
        virial == [j \in 1..Len(ind) |-> <<10 * sub_vvir[hf[ind[j]]] + 1, 10>>]
        xxf == [j \in 1..Len(ind) |-> QOf(xx[fseq[ind[j]]])]
    IN  Plot2dContour(virial, xxf, TRUE, TRUE, DefaultSample, TRUE, kept, raises)

plot_vel_vs_mass ==
    \E raises \in BOOLEAN :
        /\ Call("plot_vel_vs_mass", [xlog |-> TRUE, ylog |-> TRUE, sample_given |-> FALSE], PlotXXVsMass(vels, raises))
        /\ UNCHANGED Data

\* the cut of line 350, met > 1e-4, with the metallicity in units of 1e-4
MetCut == 1

\* plot_Z_vs_vel_width
PlotZVsVelWidth(raises) ==
    LET ind2 == Where([i \in Los |-> met[i] > MetCut])
        kept == {ind2[j] : j \in 1..Len(ind2)}
        metc == [j \in 1..Len(ind2) |-> QOf(met[ind2[j]])]
        velc == [j \in 1..Len(ind2) |-> QOf(vels[ind2[j]])]
    IN  Plot2dContour(velc, metc, TRUE, TRUE, DefaultSample, TRUE, kept, raises)

plot_Z_vs_vel_width ==
    \E raises \in BOOLEAN :
        /\ Call("plot_Z_vs_vel_width", [xlog |-> TRUE, ylog |-> TRUE, sample_given |-> FALSE],
                PlotZVsVelWidth(raises))
        /\ UNCHANGED Data

(***************************************************************************)
(* kstest                                                                  *)
(***************************************************************************)
Abs(x) == IF x < 0 THEN -x ELSE x
MaxOf(S) == IF S = {} THEN 0 ELSE CHOOSE x \in S : \A y \in S : y <= x

\* the number of points of sample P in quadrant q around the origin o
QuadCount(P, o, q) ==
    Cardinality({k \in 1..Len(P) :
        LET right == RLt(o[1], P[k][1])
            above == RLt(o[2], P[k][2])
        IN  CASE q = 1 -> right /\ above
              [] q = 2 -> ~right /\ above
              [] q = 3 -> ~right /\ ~above
              [] q = 4 -> right /\ ~above})

\* the largest difference of the quadrant fractions of A and B over the
\* origins O, times Len(A)*Len(B)
KsMaxDiff(O, A, B) ==
    MaxOf({Abs(QuadCount(A, O[j], q) * Len(B) - QuadCount(B, O[j], q) * Len(A)) :
              j \in 1..Len(O), q \in 1..4})

\* ks.ks_2d_2samp(A, B): the mean of the largest quadrant-fraction differences
\* taken around the points of A and around the points of B
Ks2d2samp(A, B) ==
    QReduce(<<KsMaxDiff(A, A, B) + KsMaxDiff(B, A, B), 2 * Len(A) * Len(B)>>)

\* data = np.array([np.log10(Zdata), np.log10(veldata)]).T
ExtSample(Zdata, veldata) ==
    [k \in 1..Len(Zdata) |-> <<Log10(QOf(Zdata[k])), Log10(QOf(veldata[k]))>>]

\* data2 = np.array([np.log10(met[ind]), np.log10(vel_width[ind])]).T
SimSampleNoLog(metf, velf) ==
    [k \in 1..Len(metf) |-> <<Lin(QOf(metf[k])), Log10(QOf(velf[k]))>>]
SimSample(metf, velf) ==
    [k \in 1..Len(metf) |-> <<Log10(QOf(metf[k])), Log10(QOf(velf[k]))>>]

\* kstest(Zdata, veldata) on a spectra object whose filtered metallicities and
\* velocity widths are metf and velf
KsOf(Zdata, veldata, metf, velf) ==
    Ks2d2samp(ExtSample(Zdata, veldata), SimSample(metf, velf))

KsTest(Zdata, veldata) ==
    LET fseq == SortedSeq(filt)
        metf == Take(met, fseq)
        velf == Take(vels, fseq)
    IN  [loc |-> [Zdata |-> Zdata, veldata |-> veldata, metf |-> metf, velf |-> velf,
                  data |-> ExtSample(Zdata, veldata), data2 |-> SimSample(metf, velf),
                  ks |-> KsOf(Zdata, veldata, metf, velf)],
         plotted |-> <<>>, err |-> "none"]

\* ZS and VS are the values the external data are drawn from
kstest(ZS, VS) ==
    \E Zdata \in [1..ExtLen -> ZS], veldata \in [1..ExtLen -> VS] :
        /\ Call("kstest", [xlog |-> TRUE, ylog |-> TRUE], KsTest(Zdata, veldata))
        /\ UNCHANGED Data

(***************************************************************************)
(* plot_temp                                                               *)
(***************************************************************************)
\* the cuts of lines 192 and 195: den < 1e-6 (densities in units of 1e-7) and
\* temps < 1e5 (temperatures in units of 1e4)
DenThresh == 10
TempCut == 10
TempSample == 300

RECURSIVE SumSeq(_)
SumSeq(a) == IF Len(a) = 0 THEN 0 ELSE a[1] + SumSeq(Tail(a))

\* den[np.where(den < 1e-6)] = 0.
Threshold(d) == [i \in DOMAIN d |-> [p \in DOMAIN d[i] |-> IF d[i][p] < DenThresh THEN 0 ELSE d[i][p]]]

\* plot_temp: [den, loc, plotted, err]; den is the array get_density returned,
\* as the assignment of line 193 leaves it
PlotTemp(raises) ==
    LET den1 == Threshold(den)
        sden == [i \in Los |-> SumSeq(den1[i])]
        \* np.sum(temp*den, axis=1)/np.sum(den, axis=1)
        temps == [i \in Los |->
                    <<SumSeq([p \in 1..NumPix |-> temp[i][p] * den1[i][p]]), sden[i]>>]
        \* nan < 1e5 is False
        ind2 == Where([i \in Los |-> sden[i] > 0 /\ QLt(temps[i], QOf(TempCut))])
        kept == {ind2[j] : j \in 1..Len(ind2)}
        r == Plot2dContour([j \in 1..Len(ind2) |-> QOf(sden[ind2[j]])],
                           [j \in 1..Len(ind2) |-> temps[ind2[j]]],
                           FALSE, TRUE, TempSample, FALSE, kept, raises)
    IN  [den |-> den1, loc |-> r.loc, plotted |-> r.plotted, err |-> r.err]

plot_temp ==
    \E raises \in BOOLEAN :
        LET r == PlotTemp(raises)
        IN  /\ Call("plot_temp", [xlog |-> TRUE, ylog |-> FALSE, sample_given |-> TRUE], r)
            /\ den' = r.den
            /\ UNCHANGED <<halo, sub_vvir, vels, met, filt, temp, np_old>>

(***************************************************************************)
(* Specifications.  The object's arrays are whatever the snapshot holds;   *)
(* each specification draws the arrays its operations read.                *)
(***************************************************************************)
InitWith(HaloSet, VVirSet, VelSet, MetSet, FiltSet, DenSet, TempSet, NpSet) ==
    /\ halo \in HaloSet
    /\ sub_vvir \in VVirSet
    /\ vels \in VelSet
    /\ met \in MetSet
    /\ filt \in FiltSet
    /\ den \in DenSet
    /\ temp \in TempSet
    /\ np_old \in NpSet
    /\ op = "none"
    /\ args = <<>>
    /\ loc = NoLoc
    /\ plotted = <<>>
    /\ err = "none"

AllHalo == {[i \in Los |-> MaxHalo]}
OneVVir == {[h \in 0..MaxHalo |-> 100]}
OneMet == {[i \in Los |-> 1]}
OneDen == {[i \in Los |-> [p \in 1..NumPix |-> 0]]}

\* binning: the value array, the filter and the numpy release vary
InitBins ==
    InitWith(AllHalo, OneVVir, [Los -> VelVals], OneMet, SUBSET Los, OneDen, OneDen, BOOLEAN)

NextBins ==
    \/ plot_vel_width_breakdown
    \/ plot_f_peak_breakdown
    \/ plot_sep_frac
    \/ plot_mult_halo_frac
    \/ plot_virial_vel_vs_vel_width
    \/ Return

SpecBins == InitBins /\ [][NextBins]_vars

\* breakdown by halo: the halo indices, the virial velocities and the values vary
InitBreak ==
    InitWith([Los -> HaloIdx], [0..MaxHalo -> VVirVals], [Los -> {1, 12}],
             OneMet, {Los, Los \ {1}}, OneDen, OneDen, {FALSE})

NextBreak ==
    \/ plot_breakdown
    \/ plot_vel_width_breakdown
    \/ plot_f_peak_breakdown
    \/ plot_mult_halo_frac
    \/ plot_virial_vel_vs_vel_width
    \/ plot_vel_vs_mass
    \/ Return

SpecBreak == InitBreak /\ [][NextBreak]_vars

\* fractions: sightlines with and without a halo, the values and the filter vary
InitFrac ==
    InitWith([Los -> {-1, MaxHalo}], OneVVir, [Los -> {1, 12}],
             OneMet, {Los, Los \ {1}}, OneDen, OneDen, {FALSE})

NextFrac ==
    \/ plot_breakdown
    \/ plot_vel_width_breakdown
    \/ plot_f_peak_breakdown
    \/ plot_sep_frac
    \/ plot_mult_halo_frac
    \/ Return

SpecFrac == InitFrac /\ [][NextFrac]_vars
\* log transforms: metallicities, velocity widths and external data with zeros
InitLog ==
    InitWith(AllHalo, OneVVir, [Los -> LogVelVals], [Los -> MetVals],
             {Los}, OneDen, OneDen, {FALSE})

NextLog ==
    \/ kstest(MetVals, {100})
    \/ plot_Z_vs_vel_width
    \/ plot_vel_vs_mass
    \/ Return

SpecLog == InitLog /\ [][NextLog]_vars

\* KS test: positive metallicities, velocity widths and external data
InitKs ==
    InitWith(AllHalo, OneVVir, [Los -> PosVelVals], [Los -> PosMetVals],
             {Los}, OneDen, OneDen, {FALSE})

NextKs ==
    \/ kstest(PosMetVals, PosVelVals)
    \/ Return

SpecKs == InitKs /\ [][NextKs]_vars

\* plot_temp: the densities and the temperatures vary
InitTemp ==
    InitWith(AllHalo, OneVVir, {[i \in Los |-> 1]}, OneMet, {Los},
             [Los -> [1..NumPix -> DenVals]], [Los -> [1..NumPix -> TempVals]], {FALSE})

NextTemp ==
    \/ plot_temp
    \/ Return

SpecTemp == InitTemp /\ [][NextTemp]_vars

(***************************************************************************)
(* Properties.                                                             *)
(***************************************************************************)
BreakdownOps == {"_plot_breakdown", "plot_vel_width_breakdown", "plot_f_peak_breakdown"}
\* the operations that build their bin table from the data
BinOps == BreakdownOps \cup {"plot_mult_halo_frac", "plot_virial_vel_vs_vel_width"}
\* the operations that plot a ratio of two histograms
FracOps == BreakdownOps \cup {"plot_sep_frac", "plot_mult_halo_frac"}
\* the operations that bin on a table and plot against its centers
TableOps == BinOps \cup {"plot_sep_frac"}

NBins(t) == IF Len(t) = 0 THEN 0 ELSE Len(t) - 1
NonDegenerate(a) == Len(a) > 0 /\ QLt(NpMin(a), NpMax(a))

\* C1 (as claimed): when bins are built from a non-empty, non-constant array,
\* every value v with min <= v < max is counted in exactly one bin (stated
\* for the tables that have a bin at all).
C1_BinCoverage ==
    (op \in BinOps /\ err = "none" /\ NonDegenerate(loc.arr) /\ Len(loc.v_table) >= 2) =>
        \A k \in 1..Len(loc.arr) :
            (QLe(NpMin(loc.arr), loc.arr[k]) /\ QLt(loc.arr[k], NpMax(loc.arr))) =>
                Cardinality({i \in 1..NBins(loc.v_table) :
                                InBin(loc.arr[k], loc.v_table, i)}) = 1

\* the covariate of a sightline that has a halo
Covariate(s) == sub_vvir[halo[s]]

\* C2 (as claimed): the subset of range (low, high) is exactly the restricted
\* sightlines with low <= covariate < high, so a covariate on the boundary of
\* two contiguous ranges is counted in exactly one of them.
C2_HalfOpenRanges ==
    (op \in BreakdownOps /\ err = "none") =>
        /\ \A i \in 1..Len(plotted) :
              plotted[i].members =
                 {s \in loc.kept : args.low[i] <= Covariate(s) /\ Covariate(s) < args.high[i]}
        /\ \A s \in loc.kept :
              (\E i \in 1..(Len(plotted) - 1) :
                   args.high[i] = args.low[i + 1] /\ Covariate(s) = args.high[i]) =>
                 Cardinality({i \in 1..Len(plotted) : s \in plotted[i].members}) = 1

\* C4: every plotted fraction has a denominator >= 1 (the total count with zeros
\* replaced by 1), a numerator between 0 and the unsubstituted total count, so
\* it lies in [0, 1], and it is 0 where the total count was 0.
C4_FractionsInUnitInterval ==
    (op \in FracOps /\ err = "none") =>
        LET raw == Histogram(loc.arr, loc.v_table)
        IN  \A c \in 1..Len(plotted) :
              /\ Len(plotted[c].y) = Len(raw)
              /\ \A i \in 1..Len(raw) :
                    LET f == plotted[c].y[i]
                    IN  /\ f[2] >= 1
                        /\ f[2] = (IF raw[i] = 0 THEN 1 ELSE raw[i])
                        /\ 0 <= f[1] /\ f[1] <= raw[i] /\ f[1] <= f[2]
                        /\ (raw[i] = 0 => f[1] = 0)

\* C4 witness: a ratio was plotted with a zero-count bin (substituted) and a bin
\* holding a proper fraction.
C4_Witness ==
    /\ op \in FracOps /\ err = "none" /\ Len(plotted) > 0
    /\ LET raw == Histogram(loc.arr, loc.v_table)
       IN  \E c \in 1..Len(plotted) : \E i, j \in 1..Len(raw) :
              /\ raw[i] = 0 /\ plotted[c].y[i] = <<0, 1>>
              /\ 0 < plotted[c].y[j][1] /\ plotted[c].y[j][1] < plotted[c].y[j][2]

StrictlyIncreasing(t) == \A i \in 1..(Len(t) - 1) : QLt(t[i], t[i + 1])

\* C6 (as claimed): bin construction fails (with whatever exception) on an empty
\* or constant array, returns at least 2 strictly increasing edges otherwise,
\* and nothing is plotted over fewer than 2 edges.
C6_DegenerateRange ==
    op \in BinOps =>
        /\ ~NonDegenerate(loc.arr) => err # "none"
        /\ (NonDegenerate(loc.arr) /\ err = "none") =>
               (Len(loc.v_table) >= 2 /\ StrictlyIncreasing(loc.v_table))
        /\ Len(plotted) > 0 => Len(loc.v_table) >= 2

\* C8 (as claimed): a breakdown that fails has emitted no curve; either every
\* range's curve is plotted or none is.
C8_NoPartialResult ==
    op \in BreakdownOps =>
        /\ err # "none" => plotted = <<>>
        /\ Len(plotted) \in {0, Len(args.low)}

CovOps == BinOps \cup {"plot_vel_vs_mass"}

\* C3 (as claimed): a covariate-conditioned operation drops a sightline exactly
\* when its halo index is negative; halo index 0 is retained.
C3_ExcludeNegativeHalo ==
    op \in CovOps => loc.kept = {s \in filt : halo[s] >= 0}

ContourOps == {"plot_Z_vs_vel_width", "plot_vel_vs_mass", "plot_temp"}

\* C5 (as claimed): no -inf or nan produced by a log10 transform reaches the
\* binning of correlate or the KS routine; the operation fails instead.
C5_NoNonFiniteLog ==
    /\ op \in ContourOps =>
          \A k \in 1..Len(loc.xT) : ~NonFinite(loc.xT[k]) /\ ~NonFinite(loc.yT[k])
    /\ op = "kstest" =>
          /\ \A k \in 1..Len(loc.data) : \A c \in 1..2 : ~NonFinite(loc.data[k][c])
          /\ \A k \in 1..Len(loc.data2) : \A c \in 1..2 : ~NonFinite(loc.data2[k][c])

\* C7 (as claimed): no operation changes an array returned by an accessor.
C7_InputsNotMutated ==
    [][/\ den' = den /\ temp' = temp /\ vels' = vels /\ met' = met
       /\ halo' = halo /\ filt' = filt /\ sub_vvir' = sub_vvir]_vars

C11_ContourLevels ==
    (/\ op \in ContourOps /\ err = "none" /\ Len(loc.xT) > 0
     /\ \A k \in 1..Len(loc.xT) : ~NonFinite(loc.xT[k]) /\ ~NonFinite(loc.yT[k])) =>
        /\ args.sample_given
        /\ \A m \in 1..3 :
              QSame(loc.levels[m], QMul(<<Len(loc.xT), loc.sample>>, ContourMult[m]))

\* the call of _plot_breakdown on the same data and bins with range i alone
RangeAlone(i) ==
    PlotBreakdown(vels, filt, <<args.low[i]>>, <<args.high[i]>>, <<"alone">>,
                  args.dv, args.log, np_old)

\* C12 (as claimed): whatever the number and the order of the ranges, each range
\* has its curve, and it is the curve the breakdown gives for that range alone;
\* all curves are on the same bin centers with the same zero-substituted
\* denominator, and a sightline whose covariate is inside two overlapping ranges
\* is counted in both.  Stated for the data on which the breakdown of one range
\* alone succeeds with at least one bin.
C12_RangeIndependence ==
    op \in BreakdownOps =>
        \A i \in 1..Len(args.low) :
            (RangeAlone(i).err = "none" /\ Len(RangeAlone(i).loc.v_table) >= 2) =>
                /\ i <= Len(plotted)
                /\ plotted[i].x = loc.vbin
                /\ plotted[i].y = RangeAlone(i).plotted[1].y
                /\ plotted[i].members = RangeAlone(i).plotted[1].members
                /\ \A k \in 1..Len(plotted[i].y) : plotted[i].y[k][2] = loc.vhist[k]
                /\ \A s \in loc.kept :
                      (args.low[i] < Covariate(s) /\ Covariate(s) < args.high[i]) =>
                          s \in plotted[i].members
====
